---- MODULE Spec2Model ----
(***************************************************************************)
(* GenerateTypesFromJSONSchemas (storyblok-cli): the generation of         *)
(* TypeScript type definitions from Storyblok component schemas.           *)
(*                                                                         *)
(* JavaScript strings whose content the code inspects or builds (names,    *)
(* keys, option values) are sequences of one-character strings; tags that  *)
(* the code only compares (field types, sources) are TLA+ strings. An      *)
(* optional property that is undefined is a field missing from the record. *)
(* A template string is the record of its parts: "(A | B)[]" is            *)
(* [op |-> "arrayOfUnion", union |-> <<A, B>>].                            *)
(***************************************************************************)
EXTENDS Naturals, Sequences, FiniteSets, TLC

VARIABLES
  pc,                     \* where the run is: loop, typeMapper, compile, done, rejected
  options,                \* #options
  componentsJSONSchemas,  \* #componentsJSONSchemas (name and group of each component)
  customTypeParser,       \* #customTypeParser, by its typeof: "null", "function", "other"
  componentGroups,        \* #componentGroups
  componentNames,         \* #componentNames
  hasTypeBeenGenerated,   \* #hasTypeBeenGenerated
  typeDefsFileStrings,    \* #typeDefsFileStrings
  ci,                     \* index of the component the for-await loop is at
  schemaKeys,             \* keys of component.schema read so far
  requiredFields,         \* requiredFields of the current component
  parseObj,               \* parseObj of the running #typeMapper call
  obj,                    \* the composite schema handed to compile
  entry,                  \* [schemaKey, schemaElement] of the last iteration of #typeMapper
  lastStep,               \* what the last step called: the compiler, the custom parser
  compiled,               \* per component submitted, whether compile returned
  file                    \* the destination file

vars == <<pc, options, componentsJSONSchemas, customTypeParser, componentGroups,
          componentNames, hasTypeBeenGenerated, typeDefsFileStrings, ci, schemaKeys,
          requiredFields, parseObj, obj, entry, lastStep, compiled, file>>

(***************************************************************************)
(* Bounds of the model.                                                    *)
(***************************************************************************)
MaxComponents == 2
MaxFields == 2
MaxOptions == 2
MaxWhitelist == 2
MaxFilter == 2

(***************************************************************************)
(* Generic helpers for JavaScript objects and arrays.                      *)
(***************************************************************************)
Has(o, f) == f \in DOMAIN o

Truthy(o, f) == Has(o, f) /\ o[f] = TRUE

\* Object.assign(target, source)
Assign(target, source) ==
  [k \in DOMAIN target \cup DOMAIN source |->
     IF k \in DOMAIN source THEN source[k] ELSE target[k]]

With(o, f, v) == [k \in DOMAIN o \cup {f} |-> IF k = f THEN v ELSE o[k]]

SeqsUpTo(S, n) == UNION {[1..k -> S] : k \in 0..n}

RECURSIVE Flatten(_)
Flatten(ss) == IF ss = <<>> THEN <<>> ELSE Head(ss) \o Flatten(Tail(ss))

Range(s) == {s[i] : i \in DOMAIN s}

(***************************************************************************)
(* Strings used by the code.                                               *)
(***************************************************************************)
STORY_DATATYPE_NAME == "ISbStoryData"

autogeneratedPropertyTypes == {"asset", "multiasset", "multilink", "richtext", "table"}

TypeNameChars ==
  [asset      |-> <<"a","s","s","e","t">>,
   multiasset |-> <<"m","u","l","t","i","a","s","s","e","t">>,
   multilink  |-> <<"m","u","l","t","i","l","i","n","k">>,
   richtext   |-> <<"r","i","c","h","t","e","x","t">>,
   table      |-> <<"t","a","b","l","e">>]

UndefinedChars == <<"u","n","d","e","f","i","n","e","d">>

KeyUid == <<"_","u","i","d">>
KeyComponent == <<"c","o","m","p","o","n","e","n","t">>
TabPrefix == <<"t","a","b","-">>

startsWith(s, prefix) ==
  Len(s) >= Len(prefix) /\ SubSeq(s, 1, Len(prefix)) = prefix

(***************************************************************************)
(* lodash camelCase and startCase, on letters and the separators "_", "-"  *)
(* and " " (runs of capitals and digits are not among the names drawn).    *)
(***************************************************************************)
UpperCase ==
  [a |-> "A", b |-> "B", c |-> "C", d |-> "D", e |-> "E", f |-> "F", g |-> "G",
   h |-> "H", i |-> "I", j |-> "J", k |-> "K", l |-> "L", m |-> "M", n |-> "N",
   o |-> "O", p |-> "P", q |-> "Q", r |-> "R", s |-> "S", t |-> "T", u |-> "U",
   v |-> "V", w |-> "W", x |-> "X", y |-> "Y", z |-> "Z"]

LowerCase ==
  [A |-> "a", B |-> "b", C |-> "c", D |-> "d", E |-> "e", F |-> "f", G |-> "g",
   H |-> "h", I |-> "i", J |-> "j", K |-> "k", L |-> "l", M |-> "m", N |-> "n",
   O |-> "o", P |-> "p", Q |-> "q", R |-> "r", S |-> "s", T |-> "t", U |-> "u",
   V |-> "v", W |-> "w", X |-> "x", Y |-> "y", Z |-> "z"]

IsLower(c) == c \in DOMAIN UpperCase
IsUpper(c) == c \in DOMAIN LowerCase
IsSeparator(c) == c \in {"_", "-", " "}

toUpper(c) == IF IsLower(c) THEN UpperCase[c] ELSE c
toLower(c) == IF IsUpper(c) THEN LowerCase[c] ELSE c

toLowerCase(s) == [i \in DOMAIN s |-> toLower(s[i])]
upperFirst(s) == IF s = <<>> THEN s ELSE <<toUpper(Head(s))>> \o Tail(s)
capitalize(s) == upperFirst(toLowerCase(s))

\* words(string): split at separators and where a capital follows a small letter
RECURSIVE splitWords(_, _, _)
splitWords(s, cur, acc) ==
  IF s = <<>> THEN (IF cur = <<>> THEN acc ELSE Append(acc, cur))
  ELSE IF IsSeparator(Head(s))
    THEN splitWords(Tail(s), <<>>, IF cur = <<>> THEN acc ELSE Append(acc, cur))
  ELSE IF cur # <<>> /\ IsUpper(Head(s)) /\ IsLower(cur[Len(cur)])
    THEN splitWords(Tail(s), <<Head(s)>>, Append(acc, cur))
  ELSE splitWords(Tail(s), Append(cur, Head(s)), acc)

words(s) == splitWords(s, <<>>, <<>>)

camelCase(s) ==
  LET w == words(s)
  IN  Flatten([i \in DOMAIN w |->
                 IF i = 1 THEN toLowerCase(w[i]) ELSE capitalize(w[i])])

RECURSIVE joinWith(_, _)
joinWith(ss, sep) ==
  IF ss = <<>> THEN <<>>
  ELSE IF Len(ss) = 1 THEN Head(ss)
  ELSE Head(ss) \o sep \o joinWith(Tail(ss), sep)

startCase(s) ==
  LET w == words(s)
  IN  joinWith([i \in DOMAIN w |-> upperFirst(w[i])], <<" ">>)

\* .replace(/ /g, "")
removeSpaces(s) == SelectSeq(s, LAMBDA c : c # " ")

getBlokTypeName(opts, blokName) ==
  LET prefix == IF Has(opts, "typeNamesPrefix") THEN opts.typeNamesPrefix ELSE <<>>
      suffix == IF Has(opts, "typeNamesSuffix") THEN opts.typeNamesSuffix ELSE UndefinedChars
  IN  removeSpaces(startCase(camelCase(prefix \o blokName \o suffix)))

getStoryType(opts, storyBlokName) ==
  [generic |-> STORY_DATATYPE_NAME, arg |-> getBlokTypeName(opts, storyBlokName)]

(***************************************************************************)
(* #parseBlokSchemaProperty                                                *)
(***************************************************************************)
\* schemaProperty.options.map((item) => item.value), or []
optionValues(schemaProperty) ==
  IF Has(schemaProperty, "options") /\ Len(schemaProperty.options) > 0
    THEN [i \in DOMAIN schemaProperty.options |-> schemaProperty.options[i].value]
    ELSE <<>>

addEmptyOption_Pushed(schemaProperty, opts) ==
  IF Len(opts) > 0 /\ ~Truthy(schemaProperty, "exclude_empty_option")
    THEN opts \o <<(<<>>)>>
    ELSE opts

\* options.unshift("") unless exclude_empty_option === true
addEmptyOption(schemaProperty, opts) ==
  IF Len(opts) > 0 /\ ~Truthy(schemaProperty, "exclude_empty_option")
    THEN <<(<<>>)>> \o opts
    ELSE opts

\* if (schemaProperty.filter_content_type): an array, empty or not, is truthy
filterContentTypeGiven(schemaProperty) == Has(schemaProperty, "filter_content_type")

storiesTsType(opts, schemaProperty) ==
  [op      |-> "unionWithString",
   stories |-> [i \in DOMAIN schemaProperty.filter_content_type |->
                  getStoryType(opts, schemaProperty.filter_content_type[i])],
   array   |-> schemaProperty.type = "options"]

fallbackType(schemaProperty, optionList) ==
  LET source == IF Has(schemaProperty, "source") THEN schemaProperty.source ELSE ""
      type1 == IF \/ (Len(optionList) > 0 /\ source = "")
                  \/ source = "internal_languages"
                  \/ source = "external"
                 THEN <<"string">> ELSE <<"any">>
  IN  IF source = "internal" THEN <<"number", "string">> ELSE type1

parseBlokSchemaProperty(opts, schemaProperty) ==
  IF schemaProperty.type \in autogeneratedPropertyTypes
    THEN [type |-> <<schemaProperty.type>>]
  ELSE
    LET optionList == addEmptyOption(schemaProperty, optionValues(schemaProperty))
        type == fallbackType(schemaProperty, optionList)
    IN  IF /\ Has(schemaProperty, "source")
           /\ schemaProperty.source = "internal_stories"
           /\ filterContentTypeGiven(schemaProperty)
          THEN [tsType |-> storiesTsType(opts, schemaProperty)]
        ELSE IF schemaProperty.type = "option"
          THEN IF Len(optionList) > 0
                 THEN [type |-> type, enum |-> optionList]
                 ELSE [type |-> type]
        ELSE IF schemaProperty.type = "options"
          THEN IF Len(optionList) > 0
                 THEN [type |-> <<"array">>, items |-> [enum |-> optionList]]
                 ELSE [type |-> <<"array">>, items |-> [type |-> type]]
        ELSE IF schemaProperty.type = "bloks" THEN [type |-> <<"array">>]
        ELSE IF schemaProperty.type = "boolean" THEN [type |-> <<"boolean">>]
        ELSE IF schemaProperty.type \in
                  {"datetime", "image", "markdown", "number", "text", "textarea"}
          THEN [type |-> <<"string">>]
        ELSE [type |-> <<"any">>]

(***************************************************************************)
(* #generateComponentGroupsAndComponentNamesFromJSONSchemas. A Set is the  *)
(* sequence of its members in insertion order.                             *)
(***************************************************************************)
setAdd(set, x) == IF x \in Range(set) THEN set ELSE Append(set, x)

groupsAdd_Overwrites(groups, currentComponent) ==
  IF Has(currentComponent, "component_group_uuid")
    THEN With(groups, currentComponent.component_group_uuid, <<currentComponent.name>>)
    ELSE groups

groupsAdd(groups, currentComponent) ==
  IF Has(currentComponent, "component_group_uuid")
    THEN With(groups, currentComponent.component_group_uuid,
              IF currentComponent.component_group_uuid \in DOMAIN groups
                THEN setAdd(groups[currentComponent.component_group_uuid],
                            currentComponent.name)
                ELSE <<currentComponent.name>>)
    ELSE groups

RECURSIVE reduceComponents(_, _)
reduceComponents(acc, components) ==
  IF components = <<>> THEN acc
  ELSE reduceComponents(
         [componentGroups |-> groupsAdd(acc.componentGroups, Head(components)),
          componentNames  |-> setAdd(acc.componentNames, Head(components).name)],
         Tail(components))

generateComponentGroupsAndComponentNames(components) ==
  reduceComponents([componentGroups |-> <<>>, componentNames |-> <<>>], components)

(***************************************************************************)
(* #typeMapper: the tsType of a multilink and of a bloks property.         *)
(***************************************************************************)
Ref(name) == [op |-> "ref", name |-> name]

multilinkTsType_OnlyWhenFalse(opts, schemaElement) ==
  LET baseType == getBlokTypeName(opts, TypeNameChars["multilink"])
      isFalse(f) == Has(schemaElement, f) /\ schemaElement[f] = FALSE
      excludedLinktypes ==
        (IF isFalse("email_link_type") THEN <<"email">> ELSE <<>>)
        \o (IF isFalse("asset_link_type") THEN <<"asset">> ELSE <<>>)
  IN  IF Len(excludedLinktypes) > 0
        THEN [op |-> "Exclude", base |-> baseType, excluded |-> excludedLinktypes]
        ELSE Ref(baseType)

multilinkTsType(opts, schemaElement) ==
  LET baseType == getBlokTypeName(opts, TypeNameChars["multilink"])
      excludedLinktypes ==
        (IF ~Truthy(schemaElement, "email_link_type") THEN <<"email">> ELSE <<>>)
        \o (IF ~Truthy(schemaElement, "asset_link_type") THEN <<"asset">> ELSE <<>>)
  IN  IF Len(excludedLinktypes) > 0
        THEN [op |-> "Exclude", base |-> baseType, excluded |-> excludedLinktypes]
        ELSE Ref(baseType)

unionArray(opts, names) ==
  [op |-> "arrayOfUnion", union |-> [i \in DOMAIN names |-> getBlokTypeName(opts, names[i])]]

nonEmptyArray_AnyArray(schemaElement, f) == Has(schemaElement, f)

\* Array.isArray(list) && list.length > 0
nonEmptyArray(schemaElement, f) == Has(schemaElement, f) /\ Len(schemaElement[f]) > 0

\* component_group_whitelist.reduce(...): the names of the members of the groups
currentGroupElements(groups, whitelist) ==
  Flatten([i \in DOMAIN whitelist |->
             IF whitelist[i] \in DOMAIN groups THEN groups[whitelist[i]] ELSE <<>>])

bloksElement(opts, groups, names, schemaElement, element) ==
  IF Truthy(schemaElement, "restrict_components")
    THEN IF Has(schemaElement, "restrict_type") /\ schemaElement.restrict_type = "groups"
      THEN IF nonEmptyArray(schemaElement, "component_group_whitelist")
        THEN LET members ==
                   currentGroupElements(groups, schemaElement.component_group_whitelist)
             IN  With(element, "tsType",
                      IF Len(members) > 0 THEN unionArray(opts, members)
                                          ELSE [op |-> "never[]"])
        ELSE element
      ELSE IF nonEmptyArray(schemaElement, "component_whitelist")
        THEN With(element, "tsType", unionArray(opts, schemaElement.component_whitelist))
        ELSE element
    ELSE With(element, "tsType", unionArray(opts, names))

(***************************************************************************)
(* Inputs: components, options, schema entries, what the custom parser     *)
(* returns.                                                                *)
(***************************************************************************)
NamePage == <<"p","a","g","e">>
NameHero == <<"h","e","r","o">>
NameCta == <<"c","t","a","_","b","o","x">>

KeyTitle == <<"t","i","t","l","e">>
KeyImage == <<"i","m","a","g","e">>
KeyLink == <<"l","i","n","k">>
KeyBody == <<"b","o","d","y">>
KeyCover == <<"c","o","v","e","r">>
KeyGallery == <<"g","a","l","l","e","r","y">>
KeyGrid == <<"g","r","i","d">>
KeyCta == <<"c","t","a">>
KeyPlugin == <<"p","l","u","g","i","n">>
KeyTab == <<"t","a","b","-","s","e","o">>
KeyField == <<"f","i","e","l","d">>

\* records r extended with the optional property f, absent or one of vals
Optional(records, f, vals) ==
  records \cup {With(r, f, v) : r \in records, v \in vals}

OptionSets ==
  {[destinationFilePath |-> "types.d.ts", typeNamesSuffix |-> <<>>],
   [typeNamesPrefix |-> <<"s","b","_">>, customFieldTypesParserPath |-> "parser.js"]}

\* the components of a run: the first one, two, ... of these
AllComponents ==
  <<[name |-> NamePage],
    [name |-> NameHero, component_group_uuid |-> "g1"],
    [name |-> NameCta, component_group_uuid |-> "g1"],
    [name |-> NamePage, component_group_uuid |-> "g2"]>>

ComponentLists == {SubSeq(AllComponents, 1, k) : k \in 1..MaxComponents}

Entry(key, element) == [schemaKey |-> key, schemaElement |-> element]

\* the entries of the schemas of a run that exercises every kind of step
SchemaEntries ==
  {Entry(KeyImage, [type |-> "asset"]),
   Entry(KeyLink, [type |-> "multilink"]),
   Entry(KeyTitle, [type |-> "text", required |-> TRUE]),
   Entry(KeyUid, [type |-> "boolean", required |-> TRUE]),
   Entry(KeyComponent, [type |-> "bloks"]),
   Entry(KeyTab, [type |-> "tab"]),
   Entry(KeyPlugin, [type |-> "custom"])}

\* the entries of the schemas of a run over the five autogenerated types
AutogeneratedEntries ==
  {Entry(KeyImage, [type |-> "asset"]),
   Entry(KeyGallery, [type |-> "multiasset"]),
   Entry(KeyLink, [type |-> "multilink"]),
   Entry(KeyBody, [type |-> "richtext"]),
   Entry(KeyGrid, [type |-> "table"])}

\* the entries of the schemas of a run with two properties of each of two types
RetryEntries ==
  {Entry(KeyImage, [type |-> "asset"]),
   Entry(KeyCover, [type |-> "asset"]),
   Entry(KeyLink, [type |-> "multilink"]),
   Entry(KeyCta, [type |-> "multilink", email_link_type |-> TRUE])}

\* the entries of the schemas of a run over multilink properties
MultilinkElements ==
  Optional(Optional({[type |-> "multilink"]}, "email_link_type", BOOLEAN),
           "asset_link_type", BOOLEAN)

MultilinkEntries ==
  {Entry(KeyLink, e) : e \in MultilinkElements}
  \cup {Entry(KeyCta, [type |-> "multilink"]),
        Entry(KeyCta, [type |-> "multilink", email_link_type |-> TRUE,
                       asset_link_type |-> TRUE])}

\* the properties that #parseBlokSchemaProperty classifies by type, source and options
OptionItems == {[value |-> <<"a">>], [value |-> <<"b">>]}

PropertyElements ==
  Optional(
    Optional(
      Optional(
        Optional({[type |-> t] : t \in {"option", "options", "text", "boolean", "section"}},
                 "source",
                 {"internal", "external", "internal_stories", "internal_languages"}),
        "options", SeqsUpTo(OptionItems, MaxOptions)),
      "exclude_empty_option", BOOLEAN),
    "filter_content_type", SeqsUpTo({NamePage, NameCta}, MaxFilter))

BloksElements ==
  Optional(
    Optional(
      Optional(
        Optional({[type |-> "bloks"]}, "restrict_components", BOOLEAN),
        "restrict_type", {"groups", ""}),
      "component_group_whitelist", SeqsUpTo({"g1", "g2", "g3"}, MaxWhitelist)),
    "component_whitelist", SeqsUpTo({NamePage, NameCta}, MaxWhitelist))

FieldEntries == {Entry(KeyField, e) : e \in PropertyElements \cup BloksElements}

\* the components around the property that is mapped
FieldComponentLists ==
  {<<[name |-> NamePage]>>,
   <<[name |-> NameHero, component_group_uuid |-> "g1"],
     [name |-> NameCta, component_group_uuid |-> "g1"]>>,
   <<[name |-> NameHero, component_group_uuid |-> "g1"],
     [name |-> NamePage],
     [name |-> NameCta, component_group_uuid |-> "g2"]>>,
   <<[name |-> NameCta, component_group_uuid |-> "g2"],
     [name |-> NameCta, component_group_uuid |-> "g2"],
     [name |-> NameHero, component_group_uuid |-> "g2"]>>}

FieldOptionSets ==
  {[typeNamesPrefix |-> <<"s","b","_">>, typeNamesSuffix |-> <<>>]}

AutogeneratedOptionSets ==
  {[destinationFilePath |-> "types.d.ts", typeNamesSuffix |-> <<>>]}

\* what a custom parser returns for a property
Fragments ==
  {<<>>,
   (KeyPlugin :> [type |-> <<"string">>]),
   (KeyUid :> [type |-> <<"number">>]) @@ (KeyComponent :> [type |-> <<"number">>])}

(***************************************************************************)
(* init and the constructor.                                               *)
(***************************************************************************)
\* what #loadCustomFieldTypeParser may return: the default export of the module
\* (a function or not), or null
loadCustomFieldTypeParser(opts) ==
  IF Has(opts, "customFieldTypesParserPath")
    THEN {"function", "other", "null"}
    ELSE {"null"}

NoEntry == Entry(<<>>, [type |-> "none"])
NoObj == [id |-> <<>>, title |-> <<>>, required |-> <<>>, properties |-> <<>>]
Step(op, render, parser) == [op |-> op, render |-> render, parser |-> parser]

importLine == [kind |-> "import", name |-> <<>>, title |-> <<>>]

InitWith(optionSets, componentLists) ==
  /\ options \in optionSets
  /\ componentsJSONSchemas \in componentLists
  /\ customTypeParser \in loadCustomFieldTypeParser(options)
  /\ componentGroups =
       generateComponentGroupsAndComponentNames(componentsJSONSchemas).componentGroups
  /\ componentNames =
       generateComponentGroupsAndComponentNames(componentsJSONSchemas).componentNames
  /\ hasTypeBeenGenerated = [t \in autogeneratedPropertyTypes |-> FALSE]
  /\ typeDefsFileStrings = <<importLine>>
  /\ pc = "loop"
  /\ ci = 0
  /\ schemaKeys = <<>>
  /\ requiredFields = <<>>
  /\ parseObj = <<>>
  /\ obj = NoObj
  /\ entry = NoEntry
  /\ lastStep = Step("init", "none", "none")
  /\ compiled = <<>>
  /\ file = [written |-> FALSE, content |-> <<>>]

Init == InitWith(OptionSets, ComponentLists)

(***************************************************************************)
(* generateTSFile: the loop over the components.                           *)
(***************************************************************************)
component == componentsJSONSchemas[ci]

NextComponent ==
  /\ pc = "loop"
  /\ ci < Len(componentsJSONSchemas)
  /\ ci' = ci + 1
  /\ pc' = "typeMapper"
  /\ schemaKeys' = <<>>
  /\ requiredFields' = <<KeyComponent, KeyUid>>
  /\ parseObj' = <<>>
  /\ lastStep' = Step("next", "none", "none")
  /\ UNCHANGED <<options, componentsJSONSchemas, customTypeParser, componentGroups,
                 componentNames, hasTypeBeenGenerated, typeDefsFileStrings, obj,
                 entry, compiled, file>>

\* one entry of Object.entries(component.schema), read by the reduce that
\* collects the required keys and by the loop of #typeMapper
ReadEntry(e) ==
  /\ pc = "typeMapper"
  /\ Len(schemaKeys) < MaxFields
  /\ e.schemaKey \notin Range(schemaKeys)
  /\ schemaKeys' = Append(schemaKeys, e.schemaKey)
  /\ entry' = e
  /\ requiredFields' = IF Truthy(e.schemaElement, "required")
                         THEN Append(requiredFields, e.schemaKey)
                         ELSE requiredFields
  /\ UNCHANGED <<options, componentsJSONSchemas, customTypeParser, componentGroups,
                 componentNames, ci, obj, compiled, file>>

SkipTab(e) ==
  /\ ReadEntry(e)
  /\ startsWith(e.schemaKey, TabPrefix)
  /\ lastStep' = Step("tab", "none", "none")
  /\ UNCHANGED <<pc, parseObj, hasTypeBeenGenerated, typeDefsFileStrings>>

MapCustom(e) ==
  /\ ReadEntry(e)
  /\ ~startsWith(e.schemaKey, TabPrefix)
  /\ e.schemaElement.type = "custom"
  /\ UNCHANGED <<hasTypeBeenGenerated, typeDefsFileStrings>>
  /\ \/ /\ customTypeParser # "function"
        /\ parseObj' = Assign(parseObj, <<>>)
        /\ lastStep' = Step("custom", "none", "absent")
        /\ UNCHANGED pc
     \/ /\ customTypeParser = "function"
        /\ \E fragment \in Fragments : parseObj' = Assign(parseObj, fragment)
        /\ lastStep' = Step("custom", "none", "returned")
        /\ UNCHANGED pc
     \/ \* the parser throws: nothing catches it, generateTSFile rejects
        /\ customTypeParser = "function"
        /\ pc' = "rejected"
        /\ lastStep' = Step("custom", "none", "threw")
        /\ UNCHANGED parseObj

\* compile(schema, name, options), when it returns: the text of one definition
compileText(kind, name, title) == [kind |-> kind, name |-> name, title |-> title]

push_Unshift(strings, ts) == <<ts>> \o strings

\* this.#typeDefsFileStrings.push(ts)
push(strings, ts) == Append(strings, ts)

generateTypeString_NotMarked(generated, typeName) == generated

\* #generateTypeString after compile returned
generateTypeString(generated, typeName) == [generated EXCEPT ![typeName] = TRUE]

generateAutogeneratedTypeCatch_Poisons(generated, typeName) ==
  [generated EXCEPT ![typeName] = TRUE]

\* #generateAutogeneratedType when compile (or the schema getter) threw
generateAutogeneratedTypeCatch(generated, typeName) == generated

\* obj[schemaKey] of an autogenerated type, after lines 208-233
autogeneratedElement(opts, schemaElement) ==
  LET type == schemaElement.type
      element == parseBlokSchemaProperty(opts, schemaElement)
      blokName == getBlokTypeName(opts, TypeNameChars[type])
  IN  With(element, "tsType",
           IF type = "multilink" THEN multilinkTsType(opts, schemaElement)
                                 ELSE Ref(blokName))

MapAutogenerated(e) ==
  LET type == e.schemaElement.type
      blokName == getBlokTypeName(options, TypeNameChars[type])
  IN  /\ ReadEntry(e)
      /\ ~startsWith(e.schemaKey, TabPrefix)
      /\ type \in autogeneratedPropertyTypes
      /\ parseObj' = Assign(parseObj,
                            e.schemaKey :> autogeneratedElement(options, e.schemaElement))
      /\ UNCHANGED pc
      /\ \/ /\ hasTypeBeenGenerated[type]
            /\ lastStep' = Step("autogenerated", "none", "none")
            /\ UNCHANGED <<hasTypeBeenGenerated, typeDefsFileStrings>>
         \/ /\ ~hasTypeBeenGenerated[type]
            /\ hasTypeBeenGenerated' = generateTypeString(hasTypeBeenGenerated, type)
            /\ typeDefsFileStrings' =
                 push(typeDefsFileStrings,
                      compileText("autogenerated", TypeNameChars[type], blokName))
            /\ lastStep' = Step("autogenerated", "returned", "none")
         \/ /\ ~hasTypeBeenGenerated[type]
            /\ hasTypeBeenGenerated' =
                 generateAutogeneratedTypeCatch(hasTypeBeenGenerated, type)
            /\ lastStep' = Step("autogenerated", "threw", "none")
            /\ UNCHANGED typeDefsFileStrings

\* obj[schemaKey] of any other type, after line 192 and lines 235-270
fieldElement(opts, groups, names, schemaElement) ==
  LET element == parseBlokSchemaProperty(opts, schemaElement)
  IN  IF schemaElement.type = "bloks"
        THEN bloksElement(opts, groups, names, schemaElement, element)
        ELSE element

MapField(e) ==
  /\ ReadEntry(e)
  /\ ~startsWith(e.schemaKey, TabPrefix)
  /\ e.schemaElement.type # "custom"
  /\ e.schemaElement.type \notin autogeneratedPropertyTypes
  /\ parseObj' = Assign(parseObj,
                        e.schemaKey :> fieldElement(options, componentGroups,
                                                    componentNames, e.schemaElement))
  /\ lastStep' = Step("field", "none", "none")
  /\ UNCHANGED <<pc, hasTypeBeenGenerated, typeDefsFileStrings>>

compositeSchema_MandatoryFirst(opts, comp, required, properties) ==
  [id         |-> comp.name,
   title      |-> getBlokTypeName(opts, comp.name),
   required   |-> required,
   properties |-> Assign((KeyUid :> [type |-> <<"string">>])
                           @@ (KeyComponent :> [type |-> <<"string">>,
                                                enum |-> <<comp.name>>]),
                         properties)]

\* the composite schema of lines 152-167
compositeSchema(opts, comp, required, properties) ==
  [id         |-> comp.name,
   title      |-> getBlokTypeName(opts, comp.name),
   required   |-> required,
   properties |-> With(With(properties, KeyUid, [type |-> <<"string">>]),
                       KeyComponent, [type |-> <<"string">>, enum |-> <<comp.name>>])]

TypeMapperReturn ==
  /\ pc = "typeMapper"
  /\ pc' = "compile"
  /\ obj' = compositeSchema(options, component, requiredFields, parseObj)
  /\ entry' = NoEntry
  /\ lastStep' = Step("return", "none", "none")
  /\ UNCHANGED <<options, componentsJSONSchemas, customTypeParser, componentGroups,
                 componentNames, hasTypeBeenGenerated, typeDefsFileStrings, ci, schemaKeys,
                 requiredFields, parseObj, compiled, file>>

afterCompileError_Rethrown == "rejected"

\* where the run goes after the catch of lines 172-174
afterCompileError == "loop"

CompileReturns ==
  /\ pc = "compile"
  /\ typeDefsFileStrings' =
       push(typeDefsFileStrings, compileText("component", component.name, obj.title))
  /\ compiled' = Append(compiled, TRUE)
  /\ pc' = "loop"
  /\ obj' = NoObj
  /\ lastStep' = Step("compile", "returned", "none")
  /\ UNCHANGED <<options, componentsJSONSchemas, customTypeParser, componentGroups,
                 componentNames, hasTypeBeenGenerated, ci, schemaKeys, requiredFields,
                 parseObj, entry, file>>

CompileThrows ==
  /\ pc = "compile"
  /\ compiled' = Append(compiled, FALSE)
  /\ pc' = afterCompileError
  /\ obj' = NoObj
  /\ lastStep' = Step("compile", "threw", "none")
  /\ UNCHANGED <<options, componentsJSONSchemas, customTypeParser, componentGroups,
                 componentNames, hasTypeBeenGenerated, typeDefsFileStrings, ci, schemaKeys,
                 requiredFields, parseObj, entry, file>>

WriteTypeDefs ==
  /\ pc = "loop"
  /\ ci = Len(componentsJSONSchemas)
  /\ pc' = "done"
  /\ file' = IF Has(options, "destinationFilePath")
               THEN [written |-> TRUE, content |-> typeDefsFileStrings]
               ELSE file
  /\ lastStep' = Step("write", "none", "none")
  /\ UNCHANGED <<options, componentsJSONSchemas, customTypeParser, componentGroups,
                 componentNames, hasTypeBeenGenerated, typeDefsFileStrings, ci, schemaKeys,
                 requiredFields, parseObj, obj, entry, compiled>>

Next ==
  \/ NextComponent
  \/ \E e \in SchemaEntries : SkipTab(e)
  \/ \E e \in SchemaEntries : MapCustom(e)
  \/ \E e \in SchemaEntries : MapAutogenerated(e)
  \/ \E e \in SchemaEntries : MapField(e)
  \/ TypeMapperReturn
  \/ CompileReturns
  \/ CompileThrows
  \/ WriteTypeDefs

Spec == Init /\ [][Next]_vars

NextAutogenerated ==
  \/ NextComponent
  \/ \E e \in AutogeneratedEntries : MapAutogenerated(e)
  \/ TypeMapperReturn
  \/ CompileReturns
  \/ CompileThrows
  \/ WriteTypeDefs

InitAutogenerated == InitWith(AutogeneratedOptionSets, ComponentLists)

SpecAutogenerated == InitAutogenerated /\ [][NextAutogenerated]_vars

NextRetry ==
  \/ NextComponent
  \/ \E e \in RetryEntries : MapAutogenerated(e)
  \/ TypeMapperReturn
  \/ CompileReturns
  \/ CompileThrows
  \/ WriteTypeDefs

SpecRetry == InitAutogenerated /\ [][NextRetry]_vars

NextMultilink ==
  \/ NextComponent
  \/ \E e \in MultilinkEntries : MapAutogenerated(e)
  \/ TypeMapperReturn
  \/ CompileReturns
  \/ CompileThrows
  \/ WriteTypeDefs

SpecMultilink == InitAutogenerated /\ [][NextMultilink]_vars

\* the mapping of one property of the first component
InitField == InitWith(FieldOptionSets, FieldComponentLists)

NextField ==
  \/ ci = 0 /\ NextComponent
  \/ schemaKeys = <<>> /\ \E e \in FieldEntries : MapField(e)

SpecField == InitField /\ [][NextField]_vars

(***************************************************************************)
(* Properties of a run.                                                    *)
(***************************************************************************)
RenderedDefinitions(typeName) ==
  {i \in DOMAIN typeDefsFileStrings :
     /\ typeDefsFileStrings[i].kind = "autogenerated"
     /\ typeDefsFileStrings[i].name = TypeNameChars[typeName]}

\* C1: the output never holds more than one rendered definition of any of the
\* five autogenerated types, however many properties of however many components
\* have that type and whatever the compiler returned or threw.
C1_AtMostOneDefinitionPerType ==
  \A t \in autogeneratedPropertyTypes : Cardinality(RenderedDefinitions(t)) <= 1

\* a second component has a property of type asset, after the first component's
\* compile threw, and the definition rendered before is not rendered again
C1_Witness ==
  /\ ci = 2
  /\ compiled = <<FALSE>>
  /\ entry.schemaElement.type = "asset"
  /\ lastStep = Step("autogenerated", "none", "none")
  /\ Cardinality(RenderedDefinitions("asset")) = 1

RefersTo(tsType, name) ==
  \/ tsType.op = "ref" /\ tsType.name = name
  \/ tsType.op = "Exclude" /\ tsType.base = name

\* C2: a property of an autogenerated type has its definition rendered exactly
\* when the registry flag of the type is false; when the render throws, the flag
\* stays false, nothing is appended to the output, and the property still gets
\* the formatted name of the type as its tsType. So the next property of the type
\* renders again.
C2_RenderFailureIsRetried ==
  [][lastStep'.op = "autogenerated" =>
       LET t == entry'.schemaElement.type
       IN  /\ (lastStep'.render # "none") <=> ~hasTypeBeenGenerated[t]
           /\ lastStep'.render = "threw" =>
                 /\ ~hasTypeBeenGenerated'[t]
                 /\ typeDefsFileStrings' = typeDefsFileStrings
                 /\ RefersTo(parseObj'[entry'.schemaKey].tsType,
                             getBlokTypeName(options, TypeNameChars[t]))]_vars

\* in the first component the render for the property image threw and the render
\* for the property cover, of the same type, was attempted again and returned
C2_Witness ==
  /\ ci = 1
  /\ schemaKeys = <<KeyImage, KeyCover>>
  /\ lastStep = Step("autogenerated", "returned", "none")
  /\ Cardinality(RenderedDefinitions("asset")) = 1
  /\ parseObj[KeyImage].tsType = Ref(getBlokTypeName(options, TypeNameChars["asset"]))

ComponentDefinitions == SelectSeq(typeDefsFileStrings, LAMBDA d : d.kind = "component")

RECURSIVE compiledNames(_)
compiledNames(n) ==
  IF n = 0 THEN <<>>
  ELSE IF compiled[n] THEN Append(compiledNames(n - 1), componentsJSONSchemas[n].name)
  ELSE compiledNames(n - 1)

\* C3: when compile throws for a component the loop goes on to the next
\* component and nothing is appended; between components and at the write step
\* every component read so far was submitted, and the output holds, in order,
\* the definitions of the components whose compile returned and no other.
C3_CompileFailureSkipsOneComponent ==
  /\ [](pc \in {"loop", "done"} =>
          /\ Len(compiled) = ci
          /\ [i \in DOMAIN ComponentDefinitions |-> ComponentDefinitions[i].name]
               = compiledNames(ci))
  /\ [](pc = "done" => ci = Len(componentsJSONSchemas))
  /\ [][lastStep'.op = "compile" /\ lastStep'.render = "threw" =>
          pc' = "loop" /\ typeDefsFileStrings' = typeDefsFileStrings]_vars

\* the first component's compile threw, the second one's returned, and the file
\* was written with the second definition only
C3_Witness ==
  /\ pc = "done"
  /\ compiled = <<FALSE, TRUE>>
  /\ file.written
  /\ Len(ComponentDefinitions) = 1
  /\ ComponentDefinitions[1].name = componentsJSONSchemas[2].name

\* C4: a custom parser that failed to load or that throws when called never
\* ends the run: the property adds nothing to parseObj and #typeMapper goes on.
C4_ParserFailureNeverEndsTheRun ==
  [][lastStep'.op = "custom" /\ lastStep'.parser \in {"absent", "threw"} =>
       pc' = "typeMapper" /\ parseObj' = parseObj]_vars

\* C7: the tsType of a multilink property excludes the email link type exactly
\* when email_link_type is not true and the asset link type exactly when
\* asset_link_type is not true; with both true it is the formatted name alone.
\* This holds whether the definition was rendered for this property or before.
C7_MultilinkExclusions ==
  (pc = "typeMapper" /\ entry.schemaElement.type = "multilink") =>
    LET el == entry.schemaElement
        tsType == parseObj[entry.schemaKey].tsType
        base == getBlokTypeName(options, TypeNameChars["multilink"])
        email == Has(el, "email_link_type") /\ el.email_link_type
        asset == Has(el, "asset_link_type") /\ el.asset_link_type
    IN  IF email /\ asset
          THEN tsType = Ref(base)
          ELSE /\ tsType.op = "Exclude"
               /\ tsType.base = base
               /\ ("email" \in Range(tsType.excluded)) <=> ~email
               /\ ("asset" \in Range(tsType.excluded)) <=> ~asset

\* a multilink property with neither flag set, read when the definition had been
\* rendered before, excludes both link types
C7_Witness ==
  /\ pc = "typeMapper"
  /\ entry.schemaElement = [type |-> "multilink"]
  /\ lastStep = Step("autogenerated", "none", "none")
  /\ parseObj[entry.schemaKey].tsType.op = "Exclude"
  /\ parseObj[entry.schemaKey].tsType.excluded = <<"email", "asset">>

\* C10: every composite schema handed to compile types _uid as string and
\* component as string with the name of the component as its only enum value,
\* and requires both, whatever the schema or the custom parser put under these
\* keys.
C10_MandatoryFields ==
  pc = "compile" =>
    /\ obj.properties[KeyUid] = [type |-> <<"string">>]
    /\ obj.properties[KeyComponent] = [type |-> <<"string">>, enum |-> <<component.name>>]
    /\ {KeyUid, KeyComponent} \subseteq Range(obj.required)

\* the schema has a property component and the custom parser returned a fragment
\* with the key _uid: both are replaced in the composite schema
C10_Witness ==
  /\ pc = "compile"
  /\ KeyUid \in DOMAIN parseObj
  /\ parseObj[KeyUid] = [type |-> <<"number">>]
  /\ KeyComponent \in Range(schemaKeys)
  /\ parseObj[KeyComponent].type = <<"array">>
  /\ obj.properties[KeyUid] = [type |-> <<"string">>]

(***************************************************************************)
(* Properties of the mapping of one property.                              *)
(***************************************************************************)
Mapped == pc = "typeMapper" /\ schemaKeys # <<>>

mappedElement == parseObj[entry.schemaKey]

RestrictedByGroups(el) ==
  /\ el.type = "bloks"
  /\ Truthy(el, "restrict_components")
  /\ Has(el, "restrict_type") /\ el.restrict_type = "groups"

RestrictedByList(el) ==
  /\ el.type = "bloks"
  /\ Truthy(el, "restrict_components")
  /\ ~(Has(el, "restrict_type") /\ el.restrict_type = "groups")

\* the names of the components of the run that belong to one of the groups
GroupMembers(whitelist) ==
  {componentsJSONSchemas[i].name :
     i \in {j \in DOMAIN componentsJSONSchemas :
              /\ Has(componentsJSONSchemas[j], "component_group_uuid")
              /\ componentsJSONSchemas[j].component_group_uuid \in Range(whitelist)}}

\* C5: a bloks property restricted by groups, with group ids listed, gets never[]
\* when none of the listed groups has a member among the components (ids of no
\* group included), and otherwise the array over the union of the formatted names
\* of all the members of the listed groups.
C5_BloksRestrictedByGroups ==
  (/\ Mapped
   /\ RestrictedByGroups(entry.schemaElement)
   /\ Has(entry.schemaElement, "component_group_whitelist")
   /\ entry.schemaElement.component_group_whitelist # <<>>) =>
    LET members == GroupMembers(entry.schemaElement.component_group_whitelist)
    IN  /\ Has(mappedElement, "tsType")
        /\ IF members = {}
             THEN mappedElement.tsType = [op |-> "never[]"]
             ELSE /\ mappedElement.tsType.op = "arrayOfUnion"
                  /\ Range(mappedElement.tsType.union) =
                       {getBlokTypeName(options, n) : n \in members}

\* the groups g3, of no component, and g2, of no component of this run, are listed
C5_Witness ==
  /\ Mapped
  /\ RestrictedByGroups(entry.schemaElement)
  /\ Has(entry.schemaElement, "component_group_whitelist")
  /\ entry.schemaElement.component_group_whitelist = <<"g3", "g2">>
  /\ componentGroups # <<>>
  /\ mappedElement.tsType = [op |-> "never[]"]

\* the restriction list of a restricted bloks property is missing or empty
RestrictionListEmpty(el) ==
  \/ /\ RestrictedByGroups(el)
     /\ Has(el, "component_group_whitelist") => el.component_group_whitelist = <<>>
  \/ /\ RestrictedByList(el)
     /\ Has(el, "component_whitelist") => el.component_whitelist = <<>>

givenOptionValues(el) ==
  IF Has(el, "options") THEN [i \in DOMAIN el.options |-> el.options[i].value] ELSE <<>>

OptionEnum(el) ==
  IF givenOptionValues(el) # <<>>
    THEN /\ Has(mappedElement, "enum")
         /\ mappedElement.enum =
              IF Has(el, "exclude_empty_option") /\ el.exclude_empty_option
                THEN givenOptionValues(el)
                ELSE <<(<<>>)>> \o givenOptionValues(el)
    ELSE DOMAIN mappedElement = {"type"}

\* C8 as claimed: a property of type option with options gets an enum of the
\* option values in their order, after a leading empty string unless
\* exclude_empty_option is true; with no options it gets a bare type, no enum.
\* (Stated for the properties whose filter_content_type is not an empty list,
\* the input on which C9 diverges.)
C8_OptionEnum ==
  (/\ Mapped
   /\ entry.schemaElement.type = "option"
   /\ Has(entry.schemaElement, "filter_content_type")
         => entry.schemaElement.filter_content_type # <<>>)
    => OptionEnum(entry.schemaElement)

StoriesRuleTaken(el) ==
  /\ Has(el, "source") /\ el.source = "internal_stories"
  /\ Has(el, "filter_content_type")

\* C8 as amended: the same, for a property of type option that is not one with
\* source internal_stories and filter_content_type set (that one gets the union
\* of story types and no enum).
C8_OptionEnumUnlessStories ==
  (Mapped /\ entry.schemaElement.type = "option" /\ ~StoriesRuleTaken(entry.schemaElement))
    => OptionEnum(entry.schemaElement)

\* options a and b with exclude_empty_option false: the enum is "", a, b
C8_Witness ==
  /\ Mapped
  /\ entry.schemaElement.type = "option"
  /\ Has(entry.schemaElement, "options")
  /\ entry.schemaElement.options = <<[value |-> <<"a">>], [value |-> <<"b">>]>>
  /\ Has(entry.schemaElement, "exclude_empty_option")
  /\ ~entry.schemaElement.exclude_empty_option
  /\ mappedElement.enum = << <<>>, <<"a">>, <<"b">> >>

\* C9: a property that is not of an autogenerated type gets the union of story
\* types exactly when its source is internal_stories and filter_content_type is
\* given and not empty: the union of ISbStoryData<name> over the content types
\* listed and string, as an array iff the type is options. Otherwise its type is
\* the one of the classification by type and source.
C9_StoriesUnionRule ==
  (Mapped /\ entry.schemaElement.type \in {"option", "options", "text", "boolean", "section"}) =>
    LET el == entry.schemaElement
    IN  IF /\ Has(el, "source") /\ el.source = "internal_stories"
           /\ Has(el, "filter_content_type") /\ el.filter_content_type # <<>>
          THEN mappedElement =
                 [tsType |->
                    [op      |-> "unionWithString",
                     stories |-> [i \in DOMAIN el.filter_content_type |->
                                    [generic |-> STORY_DATATYPE_NAME,
                                     arg |-> getBlokTypeName(options,
                                                             el.filter_content_type[i])]],
                     array   |-> el.type = "options"]]
          ELSE ~Has(mappedElement, "tsType")


\* the position in the input of the component a definition was compiled from
inputPosition(definition) ==
  CHOOSE k \in DOMAIN componentsJSONSchemas :
    componentsJSONSchemas[k].name = definition.name

ComponentPositions ==
  {i \in DOMAIN typeDefsFileStrings : typeDefsFileStrings[i].kind = "component"}

IsPrefix(s, t) == Len(s) <= Len(t) /\ SubSeq(t, 1, Len(s)) = s

\* C11: the output buffer only grows at its end and is ordered. Its first entry
\* is always the import line; the component definitions stand in the input
\* order of their components; and at the step that renders the definition of an
\* autogenerated type, the buffer holds no definition of the component being
\* mapped nor of any later one, so that the rendered definition, which is never
\* removed, precedes the definition of the component whose property triggered
\* it and every component definition after it. A failed compile of that
\* component changes nothing in the buffer.
C11_OutputBufferOrdered ==
  /\ [](/\ Len(typeDefsFileStrings) >= 1
        /\ typeDefsFileStrings[1] = importLine
        /\ \A i \in ComponentPositions : \A j \in ComponentPositions :
             i < j => inputPosition(typeDefsFileStrings[i])
                        < inputPosition(typeDefsFileStrings[j]))
  /\ [][/\ IsPrefix(typeDefsFileStrings, typeDefsFileStrings')
        /\ (/\ Len(typeDefsFileStrings') > Len(typeDefsFileStrings)
            /\ typeDefsFileStrings'[Len(typeDefsFileStrings')].kind = "autogenerated")
           => /\ pc = "typeMapper"
              /\ \A i \in ComponentPositions :
                   inputPosition(typeDefsFileStrings[i]) < ci
        /\ (pc = "compile" /\ lastStep'.render = "threw")
           => typeDefsFileStrings' = typeDefsFileStrings]_vars

\* the first component's property rendered an autogenerated definition, its own
\* compile failed, and the second component, which has no property, was
\* compiled: the output is the import line, the autogenerated definition and
\* the second component's definition, in this order
C11_Witness ==
  /\ pc = "loop"
  /\ compiled = <<FALSE, TRUE>>
  /\ schemaKeys = <<>>
  /\ Len(typeDefsFileStrings) = 3
  /\ typeDefsFileStrings[1] = importLine
  /\ typeDefsFileStrings[2].kind = "autogenerated"
  /\ typeDefsFileStrings[3].kind = "component"
  /\ typeDefsFileStrings[3].name = componentsJSONSchemas[2].name

====
